---- MODULE Spec2Model ----
(***************************************************************************)
(* Order lifecycle, pricing and local-first persistence of the restaurant  *)
(* point-of-sale application: the App component (order handlers, sync),    *)
(* the POSView component (cart, pricing, checkout) and the data-management *)
(* handlers of SettingsView.                                               *)
(*                                                                         *)
(* Money is held exactly, in units of 1/(Hundred*Hundred) of a rupee: all  *)
(* prices, rates and discount values are integers, so every amount is a    *)
(* multiple of Hundred units until its last multiplication by rate/100,    *)
(* and x * (rate / 100) is computed exactly as (x / 100) * rate.           *)
(* Presentation state (previewOrder, printMode, status messages) is not    *)
(* part of the model.                                                      *)
(***************************************************************************)
EXTENDS Integers, Sequences, FiniteSets, TLC

\* ------------------------------------------------------------------ bounds
MaxCreates == 2
MaxQty == 2
MaxLines == 2
MaxInflight == 2
MaxWrites == 3

\* --------------------------------------------------------------- constants
Hundred == 100
Unit == Hundred * Hundred

Undefined == "undefined"
NoOrder == 0
\* An optional object is a sequence of at most one element.
NoVariation == <<>>
NoFile == <<>>
NoTest == <<>>

OrderTypes == {"DINE_IN", "TAKEAWAY", "DELIVERY"}
PaymentMethods == {"CASH", "CARD"}
Statuses == {"PENDING", "HELD", "CANCELLED"}
Tabs == {"pos", "kitchen", "settings"}
Tokens == {"", " ", "tok"}

\* The menu the order-building surface offers.
MenuItems ==
  { [id |-> "A", price |-> 500, variations |-> <<>>, addons |-> <<>>] }

\* Values an administrator types into the two rate inputs.
TaxRates == {5, 0 - 200}
ServiceRates == {10}

\* ----------------------------------------------------------------- helpers
Max(a, b) == IF a >= b THEN a ELSE b

RECURSIVE SumSeq(_)
SumSeq(s) == IF s = <<>> THEN 0 ELSE Head(s) + SumSeq(Tail(s))


\* Array.prototype.filter on the index
RECURSIVE FilterIdx(_, _, _)
FilterIdx(s, keep, i) ==
  IF i > Len(s) THEN <<>>
  ELSE (IF i \in keep THEN <<s[i]>> ELSE <<>>) \o FilterIdx(s, keep, i + 1)

\* ----------------------------------------------------------------- pricing
AddonPrice(a) == a.price

\* POSView: basePrice and addonCost of one cart line
BasePrice(item) ==
  IF item.selectedVariation # NoVariation THEN item.selectedVariation[1].price
  ELSE item.price

AddonCost(item) ==
  SumSeq([i \in 1..Len(item.selectedAddons) |-> AddonPrice(item.selectedAddons[i])])

LineCost(item) == (BasePrice(item) + AddonCost(item)) * item.quantity

\* POSView: subtotal (whole rupees)
Subtotal(items) == SumSeq([i \in 1..Len(items) |-> LineCost(items[i])])

\* Pricing with the tax taken on the undiscounted subtotal.
PricingTaxOnSubtotal(items, dType, dValue, oType, rates) ==
  LET subtotal == Subtotal(items) * Unit
      discountAmount == IF dType = "PERCENT"
                        THEN (subtotal \div Hundred) * dValue
                        ELSE dValue * Unit
      discountedSubtotal == Max(0, subtotal - discountAmount)
      tax == (subtotal \div Hundred) * rates.taxRate
      serviceCharge == IF oType = "DINE_IN"
                       THEN (discountedSubtotal \div Hundred) * rates.serviceChargeRate
                       ELSE 0
  IN [subtotal |-> subtotal,
      discountAmount |-> discountAmount,
      discountedSubtotal |-> discountedSubtotal,
      tax |-> tax,
      serviceCharge |-> serviceCharge,
      total |-> discountedSubtotal + tax + serviceCharge]

\* POSView: the values of one render, in money units
Pricing(items, dType, dValue, oType, rates) ==
  LET subtotal == Subtotal(items) * Unit
      discountAmount == IF dType = "PERCENT"
                        THEN (subtotal \div Hundred) * dValue
                        ELSE dValue * Unit
      discountedSubtotal == Max(0, subtotal - discountAmount)
      tax == (discountedSubtotal \div Hundred) * rates.taxRate
      serviceCharge == IF oType = "DINE_IN"
                       THEN (discountedSubtotal \div Hundred) * rates.serviceChargeRate
                       ELSE 0
  IN [subtotal |-> subtotal,
      discountAmount |-> discountAmount,
      discountedSubtotal |-> discountedSubtotal,
      tax |-> tax,
      serviceCharge |-> serviceCharge,
      total |-> discountedSubtotal + tax + serviceCharge]

\* ------------------------------------------------------------------- state
VARIABLES
  orders,          \* App: orders (in-memory view)
  settings,        \* App: settings (in-memory view)
  printerConfig,   \* App: printerConfig (in-memory view), its paperWidth
  cart,            \* App: cart
  cartRef,         \* cartRef[i] = j: cart line i is the same object as item j
                   \* of the in-memory order currentOrderId (0: not shared)
  currentOrderId,  \* App: currentOrderId (NoOrder for null)
  activeTab,       \* App: activeTab, "login" while no user is logged in
  orderType,       \* POSView: orderType
  discountType,    \* POSView: discountType
  discountValue,   \* POSView: discountValue
  isCheckingOut,   \* POSView: isCheckingOut
  nextOrderNum,    \* POSView: nextOrderNum
  posSettings,     \* POSView: settings, read from the store at mount
  storeOrders,     \* persisted orders collection
  storeSeq,        \* persisted sequence counter
  storeSettings,   \* persisted settings record
  storePrinter,    \* persisted printer configuration, its paperWidth
  remote,          \* the remote file: a snapshot, or NoFile
  inflight,        \* sync operations whose network call has not returned
  isSyncing,       \* App: isSyncing
  syncStatus,      \* App: syncStatus
  idleTimers,      \* pending setTimeout(() => setSyncStatus('idle'))
  online,          \* navigator.onLine
  dropboxTest,     \* SettingsView: connectivity test in flight
  backupFile,      \* the last downloaded backup file
  reloadTimer,     \* pending timer of handleRestore / handleClearData
  clock,           \* number of orders created so far (ids, timestamps)
  writes,          \* number of handler calls that wrote the store or a file
  result           \* outcome of the last checkout / lifecycle call

appVars == <<orders, settings, printerConfig, cart, cartRef, currentOrderId,
             activeTab>>
posVars == <<orderType, discountType, discountValue, isCheckingOut,
             nextOrderNum, posSettings>>
storeVars == <<storeOrders, storeSeq, storeSettings, storePrinter>>
syncVars == <<remote, inflight, isSyncing, syncStatus, idleTimers, online>>
auxVars == <<dropboxTest, backupFile, reloadTimer, clock, writes, result>>
vars == <<appVars, posVars, storeVars, syncVars, auxVars>>

NoTimer == "none"
NoResult == [op |-> "none", ok |-> TRUE, id |-> NoOrder]


\* ------------------------------------------------------ persistence service
\* The paper widths of the printer settings, and the one of an empty store.
PaperWidths == {"58mm", "80mm"}
DefaultPrinter == "80mm"

\* The defaults a first run reads from an empty store.
DefaultSettings ==
  [taxRate |-> 5, serviceChargeRate |-> 10, syncEnabled |-> FALSE, token |-> ""]

\* Sequence generator: the value the next order will receive.
peekNextOrderNumber == storeSeq

\* Sequence generator: the committed number and the counter it persists.
getNextOrderNumber == [value |-> storeSeq, counter |-> storeSeq + 1]

\* getAllData / createBackup: every collection and singleton of the store.
getAllData(o, q, s, pc) ==
  [orders |-> o, seq |-> q, settings |-> s, printerConfig |-> pc]

\* A file that is not JSON, and a JSON document without the orders key.
Unparseable == [unparseable |-> TRUE]
MalformedDoc == [seq |-> 1]

\* JSON.parse / response.json() succeeds on the document.
Parses(doc) == "unparseable" \notin DOMAIN doc

\* The document has every required top-level key.
HasRequiredKeys(doc) ==
  {"orders", "seq", "settings", "printerConfig"} \subseteq DOMAIN doc

\* restoreBackup's result: the file parses into a snapshot of the expected shape.
IsSnapshot(data) ==
  data # NoFile /\ Parses(data[1]) /\ HasRequiredKeys(data[1])

\* String.prototype.trim on the tokens of the model
Trim(t) == IF t = " " THEN "" ELSE t

\* ------------------------------------------------------------------- orders
OrderIds(os) == {os[i].id : i \in 1..Len(os)}

\* Array.prototype.find by id: the index of the first match, 0 if none
FindOrder(os, id) ==
  IF id \in OrderIds(os)
  THEN CHOOSE i \in 1..Len(os) :
         os[i].id = id /\ \A j \in 1..(i - 1) : os[j].id # id
  ELSE 0

\* POSView.handleCheckout: the details object passed to the App handlers
Details(oType, p) ==
  [tableNumber |-> IF oType = "DINE_IN" THEN "1" ELSE Undefined,
   deliveryAddress |-> IF oType = "DELIVERY" THEN "" ELSE Undefined,
   subtotal |-> p.subtotal,
   taxAmount |-> p.tax,
   discountAmount |-> p.discountAmount,
   serviceChargeAmount |-> p.serviceCharge]

\* NewOrder numbering the order with the counter as it is after the commit.
NewOrderNumberAfterCommit(seqNum, id, now, items, total, type, details, method) ==
  [id |-> id, orderNumber |-> seqNum + 1, type |-> type, items |-> items,
   total |-> total, status |-> "PENDING", timestamp |-> now,
   paymentMethod |-> method, cashierName |-> "Admin",
   tableNumber |-> details.tableNumber,
   deliveryAddress |-> details.deliveryAddress,
   subtotal |-> details.subtotal,
   taxAmount |-> details.taxAmount,
   discountAmount |-> details.discountAmount,
   serviceChargeAmount |-> details.serviceChargeAmount]

\* App.handlePlaceOrder: the order object it builds
NewOrder(seqNum, id, now, items, total, type, details, method) ==
  [id |-> id, orderNumber |-> seqNum, type |-> type, items |-> items,
   total |-> total, status |-> "PENDING", timestamp |-> now,
   paymentMethod |-> method, cashierName |-> "Admin",
   tableNumber |-> details.tableNumber,
   deliveryAddress |-> details.deliveryAddress,
   subtotal |-> details.subtotal,
   taxAmount |-> details.taxAmount,
   discountAmount |-> details.discountAmount,
   serviceChargeAmount |-> details.serviceChargeAmount]

\* App.handleUpdateOrder: { ...existing, items, total, status, paymentMethod, ...details }
UpdatedOrder(existing, items, total, type, details, method) ==
  [existing EXCEPT
     !.items = items, !.total = total, !.status = "PENDING",
     !.paymentMethod = method,
     !.tableNumber = details.tableNumber,
     !.deliveryAddress = details.deliveryAddress,
     !.subtotal = details.subtotal,
     !.taxAmount = details.taxAmount,
     !.discountAmount = details.discountAmount,
     !.serviceChargeAmount = details.serviceChargeAmount]

\* orders.map(o => o.id === id ? updatedOrder : o)
ReplaceOrder(os, id, updatedOrder) ==
  [i \in 1..Len(os) |-> IF os[i].id = id THEN updatedOrder ELSE os[i]]

\* orders.map(o => o.id === id ? {...o, status: s} : o)
SetStatus(os, id, s) ==
  [i \in 1..Len(os) |-> IF os[i].id = id THEN [os[i] EXCEPT !.status = s] ELSE os[i]]

\* --------------------------------------------------------------------- sync
\* App.performSync: the guard on the credential and the connectivity
SyncStarts(S) == Trim(S.token) # "" /\ online

\* performSync without the guard on the credential and the connectivity.
performSyncUnguarded(mode, S, data) ==
  /\ inflight' = Append(inflight, [mode |-> mode, data |-> data])
  /\ isSyncing' = TRUE
  /\ syncStatus' = "idle"

\* App.performSync up to its first await.  S is the settings value of the
\* render whose handler makes the call, data the snapshot a push reads.
performSync(mode, S, data) ==
  IF SyncStarts(S)
  THEN /\ inflight' = Append(inflight, [mode |-> mode, data |-> data])
       /\ isSyncing' = TRUE
       /\ syncStatus' = "idle"
  ELSE UNCHANGED <<inflight, isSyncing, syncStatus>>

\* if (settings.sync?.enabled) performSync('PUSH')
PushIfEnabled(enabled, S, data) ==
  IF enabled THEN performSync("PUSH", S, data)
  ELSE UNCHANGED <<inflight, isSyncing, syncStatus>>

\* The model keeps at most MaxInflight network calls in flight.
SyncRoom(enabled, S) ==
  (enabled /\ SyncStarts(S)) => Len(inflight) < MaxInflight

\* App.loadLocalData: the in-memory views are re-read from the store, so no
\* cart line is an object of the orders view any more.
loadLocalData ==
  /\ orders' = storeOrders'
  /\ settings' = storeSettings'
  /\ printerConfig' = storePrinter'
  /\ cartRef' = [i \in 1..Len(cart) |-> 0]

\* ------------------------------------------------------------------ POSView
\* The state of a freshly mounted POSView.
MountPOS ==
  /\ orderType' = "DINE_IN"
  /\ discountType' = "PERCENT"
  /\ discountValue' = 0
  /\ isCheckingOut' = FALSE
  /\ nextOrderNum' = peekNextOrderNumber
  /\ posSettings' = storeSettings

\* POSView is not rendered: its state does not exist.
UnmountPOS ==
  /\ orderType' = "DINE_IN"
  /\ discountType' = "PERCENT"
  /\ discountValue' = 0
  /\ isCheckingOut' = FALSE
  /\ nextOrderNum' = 0
  /\ posSettings' = DefaultSettings

\* The values POSView computes in the current render.
Render == Pricing(cart, discountType, discountValue, orderType, posSettings)

AddonKey(addons) == {addons[i].name : i \in 1..Len(addons)}

VariationId(v) == IF v # NoVariation THEN v[1].id ELSE "base"

\* POSView.addToCart: prev.findIndex(...), 0 if there is no matching line
ExistingIndex(prev, item, addons, variation) ==
  LET Match(i) == /\ prev[i].id = item.id
                  /\ AddonKey(prev[i].selectedAddons) = AddonKey(addons)
                  /\ VariationId(prev[i].selectedVariation) = VariationId(variation)
  IN IF \E i \in 1..Len(prev) : Match(i)
     THEN CHOOSE i \in 1..Len(prev) : Match(i) /\ \A j \in 1..(i - 1) : ~Match(j)
     ELSE 0

\* What the selection modal can pass to addToCart for a menu item.
Selections(item) ==
  { [addons |-> a, variation |-> v] :
      a \in {<<>>} \cup {<<item.addons[i]>> : i \in 1..Len(item.addons)},
      v \in IF item.variations = <<>> THEN {NoVariation}
            ELSE {<<item.variations[i]>> : i \in 1..Len(item.variations)} }

\* newCart[existingIndex].quantity += 1 writes the line object itself: when
\* the line is an item of the order being edited, that order's item changes.
BumpShared(os, id, j) ==
  [k \in 1..Len(os) |->
     IF os[k].id = id /\ j \in 1..Len(os[k].items)
     THEN [os[k] EXCEPT !.items[j].quantity = @ + 1]
     ELSE os[k]]

addToCart(item, addons, variation) ==
  /\ activeTab = "pos" /\ ~isCheckingOut
  /\ LET existingIndex == ExistingIndex(cart, item, addons, variation) IN
       IF existingIndex > 0
       THEN /\ cart[existingIndex].quantity < MaxQty
            /\ cart' = [cart EXCEPT ![existingIndex].quantity = @ + 1]
            /\ orders' = IF cartRef[existingIndex] > 0
                         THEN BumpShared(orders, currentOrderId, cartRef[existingIndex])
                         ELSE orders
            /\ UNCHANGED cartRef
       ELSE /\ Len(cart) < MaxLines
            /\ cart' = Append(cart, [id |-> item.id, price |-> item.price,
                                     quantity |-> 1, selectedAddons |-> addons,
                                     selectedVariation |-> variation])
            /\ cartRef' = Append(cartRef, 0)
            /\ UNCHANGED orders
  /\ result' = NoResult
  /\ UNCHANGED <<settings, printerConfig, currentOrderId, activeTab, posVars, storeVars,
                 syncVars, dropboxTest, backupFile, reloadTimer, clock, writes>>

AddToCart ==
  \E item \in MenuItems : \E sel \in Selections(item) :
    addToCart(item, sel.addons, sel.variation)

\* The + and - buttons of a cart line: the line is replaced by a new object.
ChangeQuantity(index, q) ==
  /\ activeTab = "pos" /\ ~isCheckingOut
  /\ index \in 1..Len(cart)
  /\ q <= MaxQty
  /\ cart' = [cart EXCEPT ![index].quantity = q]
  /\ cartRef' = [cartRef EXCEPT ![index] = 0]
  /\ result' = NoResult
  /\ UNCHANGED <<orders, settings, printerConfig, currentOrderId, activeTab, posVars,
                 storeVars, syncVars, dropboxTest, backupFile, reloadTimer, clock, writes>>

IncrementQuantity == \E i \in 1..Len(cart) : ChangeQuantity(i, cart[i].quantity + 1)

\* A - button without the Math.max(1, ...) clamp.
DecrementQuantityUnclamped == \E i \in 1..Len(cart) : ChangeQuantity(i, cart[i].quantity - 1)

\* The - button of a cart line
DecrementQuantity == \E i \in 1..Len(cart) : ChangeQuantity(i, Max(1, cart[i].quantity - 1))

\* The trash button of a cart line: prev.filter((_, idx) => idx !== index)
RemoveLine ==
  \E index \in 1..Len(cart) :
    /\ activeTab = "pos" /\ ~isCheckingOut
    /\ cart' = FilterIdx(cart, (1..Len(cart)) \ {index}, 1)
    /\ cartRef' = FilterIdx(cartRef, (1..Len(cart)) \ {index}, 1)
    /\ result' = NoResult
    /\ UNCHANGED <<orders, settings, printerConfig, currentOrderId, activeTab, posVars,
                   storeVars, syncVars, dropboxTest, backupFile, reloadTimer, clock, writes>>

\* The Clear button, shown while the cart has lines.
ClearCart ==
  /\ activeTab = "pos" /\ ~isCheckingOut
  /\ Len(cart) > 0
  /\ cart' = <<>>
  /\ cartRef' = <<>>
  /\ result' = NoResult
  /\ UNCHANGED <<orders, settings, printerConfig, currentOrderId, activeTab, posVars,
                 storeVars, syncVars, dropboxTest, backupFile, reloadTimer, clock, writes>>

SetOrderType ==
  \E t \in OrderTypes :
    /\ activeTab = "pos" /\ ~isCheckingOut
    /\ t # orderType
    /\ orderType' = t
    /\ result' = NoResult
    /\ UNCHANGED <<appVars, discountType, discountValue, isCheckingOut,
                   nextOrderNum, posSettings, storeVars, syncVars,
                   dropboxTest, backupFile, reloadTimer, clock, writes>>

\* A Checkout button that is never disabled.
StartCheckoutUnguarded ==
  /\ activeTab = "pos" /\ ~isCheckingOut
  /\ isCheckingOut' = TRUE
  /\ result' = NoResult
  /\ UNCHANGED <<appVars, orderType, discountType, discountValue,
                 nextOrderNum, posSettings, storeVars, syncVars,
                 dropboxTest, backupFile, reloadTimer, clock, writes>>

\* The Checkout button: disabled while the cart is empty.
StartCheckout ==
  /\ activeTab = "pos" /\ ~isCheckingOut
  /\ Len(cart) # 0
  /\ isCheckingOut' = TRUE
  /\ result' = NoResult
  /\ UNCHANGED <<appVars, orderType, discountType, discountValue,
                 nextOrderNum, posSettings, storeVars, syncVars,
                 dropboxTest, backupFile, reloadTimer, clock, writes>>

\* The Cancel button of the payment overlay.
CancelCheckout ==
  /\ activeTab = "pos" /\ isCheckingOut
  /\ isCheckingOut' = FALSE
  /\ result' = NoResult
  /\ UNCHANGED <<appVars, orderType, discountType, discountValue,
                 nextOrderNum, posSettings, storeVars, syncVars,
                 dropboxTest, backupFile, reloadTimer, clock, writes>>


\* The model follows at most MaxWrites writing handler calls in a run.
CountWrite == writes < MaxWrites /\ writes' = writes + 1

\* A resetPos that does not call onCancelEdit: the edit session stays open.
resetPosKeepsEditing ==
  /\ isCheckingOut' = FALSE
  /\ cart' = <<>>
  /\ cartRef' = <<>>
  /\ discountValue' = 0
  /\ currentOrderId' = currentOrderId

\* POSView.resetPos, with the onCancelEdit it calls
resetPos ==
  /\ isCheckingOut' = FALSE
  /\ cart' = <<>>
  /\ cartRef' = <<>>
  /\ discountValue' = 0
  /\ currentOrderId' = NoOrder

\* handlePlaceOrder starting its push before the orders are saved.
handlePlaceOrderPushFirst(items, total, type, details, method) ==
  LET seqNum == getNextOrderNumber.value
      newOrder == NewOrder(seqNum, clock + 1, clock + 1, items, total, type,
                           details, method)
      updated == <<newOrder>> \o orders
  IN /\ clock < MaxCreates
     /\ SyncRoom(settings.syncEnabled, settings)
     /\ storeSeq' = getNextOrderNumber.counter
     /\ orders' = updated
     /\ storeOrders' = updated
     /\ clock' = clock + 1
     /\ CountWrite
     /\ result' = [op |-> "createOrder", ok |-> TRUE, id |-> newOrder.id]
     /\ PushIfEnabled(settings.syncEnabled, settings,
                      getAllData(storeOrders, storeSeq', storeSettings,
                                 storePrinter))
     /\ UNCHANGED <<settings, printerConfig, storeSettings, storePrinter>>

\* App.handlePlaceOrder
handlePlaceOrder(items, total, type, details, method) ==
  LET seqNum == getNextOrderNumber.value
      newOrder == NewOrder(seqNum, clock + 1, clock + 1, items, total, type,
                           details, method)
      updated == <<newOrder>> \o orders
  IN /\ clock < MaxCreates
     /\ SyncRoom(settings.syncEnabled, settings)
     /\ storeSeq' = getNextOrderNumber.counter
     /\ orders' = updated
     /\ storeOrders' = updated
     /\ clock' = clock + 1
     /\ CountWrite
     /\ result' = [op |-> "createOrder", ok |-> TRUE, id |-> newOrder.id]
     /\ PushIfEnabled(settings.syncEnabled, settings,
                      getAllData(storeOrders', storeSeq', storeSettings,
                                 storePrinter))
     /\ UNCHANGED <<settings, printerConfig, storeSettings, storePrinter>>

\* App.handleUpdateOrder, when the order being edited is found
handleUpdateOrder(items, total, type, details, method) ==
  LET existing == orders[FindOrder(orders, currentOrderId)]
      updatedOrder == UpdatedOrder(existing, items, total, type, details, method)
      updated == ReplaceOrder(orders, currentOrderId, updatedOrder)
  IN /\ SyncRoom(settings.syncEnabled, settings)
     /\ orders' = updated
     /\ storeOrders' = updated
     /\ result' = [op |-> "reviseOrder", ok |-> TRUE, id |-> currentOrderId]
     /\ PushIfEnabled(settings.syncEnabled, settings,
                      getAllData(storeOrders', storeSeq, storeSettings,
                                 storePrinter))
     /\ CountWrite
     /\ UNCHANGED <<settings, printerConfig, storeSeq, storeSettings,
                    storePrinter, clock>>

\* A checkout whose revision has no existence check: a missing order maps to
\* no replacement, the collection is saved again and success is reported.
handleCheckoutNoExistenceCheck(method) ==
  LET p == Render
      details == Details(orderType, p)
  IN /\ activeTab = "pos" /\ isCheckingOut
     /\ IF currentOrderId # NoOrder
        THEN IF FindOrder(orders, currentOrderId) = 0
             THEN /\ storeOrders' = orders
                  /\ result' = [op |-> "reviseOrder", ok |-> TRUE,
                                id |-> currentOrderId]
                  /\ resetPos
                  /\ nextOrderNum' = peekNextOrderNumber
                  /\ UNCHANGED <<orders, settings, printerConfig, activeTab, orderType,
                                 discountType, posSettings, storeSeq, storePrinter,
                                 storeSettings, inflight, isSyncing, syncStatus,
                                 clock, writes>>
             ELSE /\ handleUpdateOrder(cart, p.total, orderType, details, method)
                  /\ resetPos
                  /\ nextOrderNum' = peekNextOrderNumber
                  /\ UNCHANGED <<activeTab, orderType, discountType, posSettings>>
        ELSE /\ handlePlaceOrder(cart, p.total, orderType, details, method)
             /\ nextOrderNum' = storeSeq'
             /\ resetPos
             /\ UNCHANGED <<activeTab, orderType, discountType, posSettings>>
     /\ UNCHANGED <<remote, idleTimers, online, dropboxTest, backupFile,
                    reloadTimer>>

\* POSView.handleCheckout: a payment button of the overlay
handleCheckout(method) ==
  LET p == Render
      details == Details(orderType, p)
  IN /\ activeTab = "pos" /\ isCheckingOut
     /\ IF currentOrderId # NoOrder
        THEN IF FindOrder(orders, currentOrderId) = 0
             THEN \* throw new Error("Order not found"): nothing after it runs
                  /\ result' = [op |-> "reviseOrder", ok |-> FALSE,
                                id |-> currentOrderId]
                  /\ UNCHANGED <<appVars, posVars, storeVars, inflight,
                                 isSyncing, syncStatus, clock, writes>>
             ELSE /\ handleUpdateOrder(cart, p.total, orderType, details, method)
                  /\ resetPos
                  /\ nextOrderNum' = peekNextOrderNumber
                  /\ UNCHANGED <<activeTab, orderType, discountType, posSettings>>
        ELSE /\ handlePlaceOrder(cart, p.total, orderType, details, method)
             /\ nextOrderNum' = storeSeq'
             /\ resetPos
             /\ UNCHANGED <<activeTab, orderType, discountType, posSettings>>
     /\ UNCHANGED <<remote, idleTimers, online, dropboxTest, backupFile,
                    reloadTimer>>

HandleCheckout == \E method \in PaymentMethods : handleCheckout(method)

\* --------------------------------------------------------------------- App
\* LoginView.onLogin: the first render of the active tab
Login ==
  /\ activeTab = "login"
  /\ activeTab' = "pos"
  /\ MountPOS
  /\ result' = NoResult
  /\ UNCHANGED <<orders, settings, printerConfig, cart, cartRef, currentOrderId, storeVars,
                 syncVars, dropboxTest, backupFile, reloadTimer, clock, writes>>

\* Sidebar.setActiveTab
SetActiveTab ==
  \E tab \in Tabs :
    /\ activeTab # "login" /\ tab # activeTab
    /\ activeTab' = tab
    /\ IF tab = "pos" THEN MountPOS ELSE UnmountPOS
    /\ result' = NoResult
    /\ UNCHANGED <<orders, settings, printerConfig, cart, cartRef, currentOrderId, storeVars,
                   syncVars, dropboxTest, backupFile, reloadTimer, clock, writes>>

\* KitchenView.updateOrderStatus
updateOrderStatus(id, s) ==
  LET u == SetStatus(orders, id, s)
  IN /\ activeTab = "kitchen"
     /\ SyncRoom(settings.syncEnabled, settings)
     /\ orders' = u
     /\ storeOrders' = u
     /\ result' = [op |-> "transitionStatus", ok |-> TRUE, id |-> id]
     /\ PushIfEnabled(settings.syncEnabled, settings,
                      getAllData(storeOrders', storeSeq, storeSettings,
                                 storePrinter))
     /\ CountWrite
     /\ UNCHANGED <<settings, printerConfig, cart, cartRef, currentOrderId, activeTab, posVars,
                    storeSeq, storeSettings, storePrinter, remote, idleTimers, online,
                    dropboxTest, backupFile, reloadTimer, clock>>

UpdateOrderStatus ==
  \E id \in OrderIds(orders) : \E s \in Statuses : updateOrderStatus(id, s)

\* KitchenView.onEditOrder: the cart becomes the order's own items array
onEditOrder(o) ==
  /\ activeTab = "kitchen"
  /\ cart' = o.items
  /\ cartRef' = [i \in 1..Len(o.items) |-> i]
  /\ currentOrderId' = o.id
  /\ activeTab' = "pos"
  /\ MountPOS
  /\ result' = NoResult
  /\ UNCHANGED <<orders, settings, printerConfig, storeVars, syncVars, dropboxTest,
                 backupFile, reloadTimer, clock, writes>>

\* Statuses of an order the kitchen offers to edit: a live or a held one.
EditableStatuses == {"PENDING", "HELD"}

OnEditOrder ==
  \E i \in 1..Len(orders) :
    orders[i].status \in EditableStatuses /\ onEditOrder(orders[i])

\* App.handleUpdateSettings, called from a render whose settings value is S
handleUpdateSettings(newSettings, S) ==
  /\ SyncRoom(newSettings.syncEnabled, S)
  /\ settings' = newSettings
  /\ storeSettings' = newSettings
  /\ PushIfEnabled(newSettings.syncEnabled, S,
                   getAllData(storeOrders, storeSeq, storeSettings',
                                 storePrinter))

\* App.handleUpdatePrinter
handleUpdatePrinter(newConfig) ==
  /\ printerConfig' = newConfig
  /\ storePrinter' = newConfig

\* SettingsView: the paper-width buttons
UpdatePrinter ==
  \E w \in PaperWidths :
    /\ activeTab = "settings"
    /\ w # printerConfig
    /\ handleUpdatePrinter(w)
    /\ CountWrite
    /\ result' = [op |-> "updatePrinter", ok |-> TRUE, id |-> NoOrder]
    /\ UNCHANGED <<orders, settings, cart, cartRef, currentOrderId, activeTab,
                   posVars, storeOrders, storeSeq, storeSettings, syncVars,
                   dropboxTest, backupFile, reloadTimer, clock>>

\* SettingsView: the two rate inputs
UpdateRates ==
  /\ activeTab = "settings"
  /\ \/ \E v \in TaxRates :
          /\ v # settings.taxRate
          /\ handleUpdateSettings([settings EXCEPT !.taxRate = v], settings)
     \/ \E v \in ServiceRates :
          /\ v # settings.serviceChargeRate
          /\ handleUpdateSettings([settings EXCEPT !.serviceChargeRate = v], settings)
  /\ CountWrite
  /\ result' = [op |-> "updateSettings", ok |-> TRUE, id |-> NoOrder]
  /\ UNCHANGED <<orders, printerConfig, cart, cartRef, currentOrderId, activeTab, posVars,
                 storeOrders, storeSeq, storePrinter, remote, idleTimers, online,
                 dropboxTest, backupFile, reloadTimer, clock>>

\* SettingsView: the access-token input
UpdateToken ==
  \E t \in Tokens :
    /\ activeTab = "settings"
    /\ t # settings.token
    /\ handleUpdateSettings([settings EXCEPT !.token = t], settings)
    /\ CountWrite
    /\ result' = [op |-> "updateSettings", ok |-> TRUE, id |-> NoOrder]
    /\ UNCHANGED <<orders, printerConfig, cart, cartRef, currentOrderId, activeTab, posVars,
                   storeOrders, storeSeq, storePrinter, remote, idleTimers, online,
                   dropboxTest, backupFile, reloadTimer, clock>>

\* SettingsView.handleTestDropbox up to its await
TestDropboxStart ==
  /\ activeTab = "settings"
  /\ dropboxTest = NoTest
  /\ Trim(settings.token) # ""
  /\ dropboxTest' = <<[settings |-> settings, token |-> Trim(settings.token)]>>
  /\ result' = NoResult
  /\ UNCHANGED <<appVars, posVars, storeVars, syncVars, backupFile,
                 reloadTimer, clock, writes>>

\* SettingsView.handleTestDropbox after its await
TestDropboxDone ==
  \E ok \in BOOLEAN :
    /\ dropboxTest # NoTest
    /\ dropboxTest' = NoTest
    /\ IF ok
       THEN /\ handleUpdateSettings(
                 [dropboxTest[1].settings EXCEPT !.syncEnabled = TRUE,
                                                 !.token = dropboxTest[1].token],
                 dropboxTest[1].settings)
            /\ CountWrite
            /\ result' = [op |-> "updateSettings", ok |-> TRUE, id |-> NoOrder]
       ELSE /\ result' = NoResult
            /\ UNCHANGED <<settings, storeSettings, inflight, isSyncing,
                           syncStatus, writes>>
    /\ UNCHANGED <<orders, printerConfig, cart, cartRef, currentOrderId, activeTab, posVars,
                   storeOrders, storeSeq, storePrinter, remote, idleTimers, online,
                   backupFile, reloadTimer, clock>>


\* ------------------------------------------------------- backup and restore
\* saveAllData / restoreBackup: every collection and singleton is replaced
\* by the snapshot's; a document of another shape writes nothing.
saveAllData(data) ==
  IF HasRequiredKeys(data)
  THEN /\ storeOrders' = data.orders
       /\ storeSeq' = data.seq
       /\ storeSettings' = data.settings
       /\ storePrinter' = data.printerConfig
  ELSE UNCHANGED storeVars

\* clearDatabase: every collection empty, every singleton at its default
clearDatabase ==
  /\ storeOrders' = <<>>
  /\ storeSeq' = 1
  /\ storeSettings' = DefaultSettings
  /\ storePrinter' = DefaultPrinter

\* A backup that leaves the sequence counter out of the file.
handleBackupWithoutCounter ==
  /\ activeTab = "settings"
  /\ backupFile' = <<getAllData(storeOrders, 1, storeSettings, storePrinter)>>
  /\ backupFile' # backupFile
  /\ CountWrite
  /\ result' = [op |-> "backup", ok |-> TRUE, id |-> NoOrder]
  /\ UNCHANGED <<appVars, posVars, storeVars, syncVars, dropboxTest,
                 reloadTimer, clock>>

\* SettingsView.handleBackup: the downloaded file
handleBackup ==
  /\ activeTab = "settings"
  /\ backupFile' = <<getAllData(storeOrders, storeSeq, storeSettings,
                                 storePrinter)>>
  /\ backupFile' # backupFile
  /\ CountWrite
  /\ result' = [op |-> "backup", ok |-> TRUE, id |-> NoOrder]
  /\ UNCHANGED <<appVars, posVars, storeVars, syncVars, dropboxTest,
                 reloadTimer, clock>>

\* SettingsView.handleRestore, reader.onload, on the file the user chose: the
\* store is replaced now, the in-memory views are reloaded by a timer.
handleRestore(file) ==
  /\ activeTab = "settings"
  /\ reloadTimer = NoTimer
  /\ file # NoFile
  /\ IF IsSnapshot(file)
     THEN /\ saveAllData(file[1])
          /\ reloadTimer' = "onDataReset"
          /\ CountWrite
          /\ result' = [op |-> "restore", ok |-> TRUE, id |-> NoOrder]
     ELSE /\ result' = [op |-> "restore", ok |-> FALSE, id |-> NoOrder]
          /\ UNCHANGED <<storeVars, reloadTimer, writes>>
  /\ UNCHANGED <<appVars, posVars, syncVars, dropboxTest, backupFile, clock>>

\* The files a user can choose: the downloaded backup, or some other file.
HandleRestore ==
  \E file \in {backupFile, <<MalformedDoc>>, <<Unparseable>>} : handleRestore(file)

\* The timer of handleRestore fires: onDataReset is App.loadLocalData
RestoreTimer ==
  /\ reloadTimer = "onDataReset"
  /\ reloadTimer' = NoTimer
  /\ UNCHANGED storeVars
  /\ loadLocalData
  /\ result' = NoResult
  /\ UNCHANGED <<cart, currentOrderId, activeTab, posVars, syncVars,
                 dropboxTest, backupFile, clock, writes>>

\* SettingsView.handleClearData with a master PIN
handleClearData ==
  /\ activeTab = "settings"
  /\ reloadTimer = NoTimer
  /\ clearDatabase
  /\ reloadTimer' = "reload"
  /\ CountWrite
  /\ result' = NoResult
  /\ UNCHANGED <<appVars, posVars, syncVars, dropboxTest, backupFile, clock>>

\* A page load that pulls whenever a token is stored, enabled and online or not.
PageReloadPullsAlways ==
  /\ reloadTimer # "onDataReset"
  /\ orders' = storeOrders
  /\ settings' = storeSettings
  /\ printerConfig' = storePrinter
  /\ cart' = <<>>
  /\ cartRef' = <<>>
  /\ currentOrderId' = NoOrder
  /\ activeTab' = "login"
  /\ UnmountPOS
  /\ IF Trim(storeSettings.token) # ""
     THEN /\ inflight' = <<[mode |-> "PULL", data |-> NoFile]>>
          /\ isSyncing' = TRUE
     ELSE /\ inflight' = <<>>
          /\ isSyncing' = FALSE
  /\ syncStatus' = "idle"
  /\ idleTimers' = 0
  /\ dropboxTest' = NoTest
  /\ reloadTimer' = NoTimer
  /\ result' = [op |-> "startup", ok |-> TRUE, id |-> NoOrder]
  /\ UNCHANGED <<storeVars, remote, online, backupFile, clock, writes>>

\* The page is loaded again (the timer of handleClearData, or the browser):
\* App is constructed from the store and its mount effect runs.
PageReload ==
  /\ reloadTimer # "onDataReset"
  /\ orders' = storeOrders
  /\ settings' = storeSettings
  /\ printerConfig' = storePrinter
  /\ cart' = <<>>
  /\ cartRef' = <<>>
  /\ currentOrderId' = NoOrder
  /\ activeTab' = "login"
  /\ UnmountPOS
  /\ IF storeSettings.syncEnabled /\ SyncStarts(storeSettings)
     THEN /\ inflight' = <<[mode |-> "PULL", data |-> NoFile]>>
          /\ isSyncing' = TRUE
     ELSE /\ inflight' = <<>>
          /\ isSyncing' = FALSE
  /\ syncStatus' = "idle"
  /\ idleTimers' = 0
  /\ dropboxTest' = NoTest
  /\ reloadTimer' = NoTimer
  /\ result' = [op |-> "startup", ok |-> TRUE, id |-> NoOrder]
  /\ UNCHANGED <<storeVars, remote, online, backupFile, clock, writes>>

\* ---------------------------------------------------------- sync completion
RemoveAt(s, i) == FilterIdx(s, (1..Len(s)) \ {i}, 1)

\* App.performSync, finally block
SyncFinally(i) ==
  /\ inflight' = RemoveAt(inflight, i)
  /\ isSyncing' = FALSE
  /\ idleTimers' = idleTimers + 1

\* The local store and the in-memory views already hold the remote file.
HoldsRemote ==
  /\ remote # NoFile
  /\ remote[1] = getAllData(storeOrders, storeSeq, storeSettings, storePrinter)
  /\ orders = storeOrders /\ settings = storeSettings
  /\ printerConfig = storePrinter

\* The response a pull received: a failure, 404, or 200 with the file (told
\* apart by whether the store and views already held that file).
PullResponse(fails) ==
  IF fails THEN "pullFailed"
  ELSE IF remote = NoFile THEN "pull404"
  ELSE IF HoldsRemote THEN "pull200same"
  ELSE "pull200"

\* A pull that merges: the remote orders are put in front of the local ones.
PullCompleteMerging ==
  \E i \in 1..Len(inflight) : \E fails \in BOOLEAN :
    /\ inflight[i].mode = "PULL"
    /\ idleTimers < MaxInflight
    /\ IF fails
       THEN /\ syncStatus' = "error"
            /\ UNCHANGED <<orders, settings, printerConfig, cartRef, storeVars>>
       ELSE IF remote = NoFile
       THEN /\ syncStatus' = "idle"
            /\ UNCHANGED <<orders, settings, printerConfig, cartRef, storeVars>>
       ELSE IF ~Parses(remote[1])
       THEN /\ syncStatus' = "error"
            /\ UNCHANGED <<orders, settings, printerConfig, cartRef, storeVars>>
       ELSE /\ IF HasRequiredKeys(remote[1])
               THEN /\ storeOrders' = remote[1].orders \o storeOrders
                    /\ storeSeq' = remote[1].seq
                    /\ storeSettings' = remote[1].settings
                    /\ storePrinter' = remote[1].printerConfig
               ELSE UNCHANGED storeVars
            /\ loadLocalData
            /\ syncStatus' = "success"
    /\ SyncFinally(i)
    /\ result' = [op |-> PullResponse(fails), ok |-> syncStatus' # "error",
                  id |-> NoOrder]
    /\ UNCHANGED <<cart, currentOrderId, activeTab, posVars, remote, online,
                   dropboxTest, backupFile, reloadTimer, clock, writes>>

\* A pull that reports a missing remote file as an error.
PullComplete404IsError ==
  \E i \in 1..Len(inflight) : \E fails \in BOOLEAN :
    /\ inflight[i].mode = "PULL"
    /\ idleTimers < MaxInflight
    /\ IF fails \/ remote = NoFile \/ ~Parses(remote[1])
       THEN /\ syncStatus' = "error"
            /\ UNCHANGED <<orders, settings, printerConfig, cartRef, storeVars>>
       ELSE /\ saveAllData(remote[1])
            /\ loadLocalData
            /\ syncStatus' = "success"
    /\ SyncFinally(i)
    /\ result' = [op |-> PullResponse(fails), ok |-> syncStatus' # "error",
                  id |-> NoOrder]
    /\ UNCHANGED <<cart, currentOrderId, activeTab, posVars, remote, online,
                   dropboxTest, backupFile, reloadTimer, clock, writes>>

\* App.performSync('PULL') after its await
PullComplete ==
  \E i \in 1..Len(inflight) : \E fails \in BOOLEAN :
    /\ inflight[i].mode = "PULL"
    /\ idleTimers < MaxInflight
    /\ IF fails
       THEN /\ syncStatus' = "error"
            /\ UNCHANGED <<orders, settings, printerConfig, cartRef, storeVars>>
       ELSE IF remote = NoFile
       THEN \* response.status === 404
            /\ syncStatus' = "idle"
            /\ UNCHANGED <<orders, settings, printerConfig, cartRef, storeVars>>
       ELSE IF ~Parses(remote[1])
       THEN \* response.json() throws: the catch block
            /\ syncStatus' = "error"
            /\ UNCHANGED <<orders, settings, printerConfig, cartRef, storeVars>>
       ELSE /\ saveAllData(remote[1])
            /\ loadLocalData
            /\ syncStatus' = "success"
    /\ SyncFinally(i)
    /\ result' = [op |-> PullResponse(fails), ok |-> syncStatus' # "error",
                  id |-> NoOrder]
    /\ UNCHANGED <<cart, currentOrderId, activeTab, posVars, remote, online,
                   dropboxTest, backupFile, reloadTimer, clock, writes>>

\* A push that does not look at response.ok: every returned upload is a success.
PushCompleteIgnoresFailure ==
  \E i \in 1..Len(inflight) : \E fails \in BOOLEAN :
    /\ inflight[i].mode = "PUSH"
    /\ idleTimers < MaxInflight
    /\ IF fails
       THEN UNCHANGED remote
       ELSE remote' = <<inflight[i].data>>
    /\ syncStatus' = "success"
    /\ SyncFinally(i)
    /\ result' = [op |-> "push", ok |-> ~fails, id |-> NoOrder]
    /\ UNCHANGED <<appVars, posVars, storeVars, online, dropboxTest,
                   backupFile, reloadTimer, clock, writes>>

\* App.performSync('PUSH') after its await
PushComplete ==
  \E i \in 1..Len(inflight) : \E fails \in BOOLEAN :
    /\ inflight[i].mode = "PUSH"
    /\ idleTimers < MaxInflight
    /\ IF fails
       THEN /\ syncStatus' = "error"
            /\ UNCHANGED remote
       ELSE /\ remote' = <<inflight[i].data>>
            /\ syncStatus' = "success"
    /\ SyncFinally(i)
    /\ result' = [op |-> "push", ok |-> ~fails, id |-> NoOrder]
    /\ UNCHANGED <<appVars, posVars, storeVars, online, dropboxTest,
                   backupFile, reloadTimer, clock, writes>>

\* The remote file is overwritten from elsewhere (another device, or any
\* other writer of the Dropbox folder) with a document this app cannot use.
RemoteWrite ==
  \E doc \in {MalformedDoc, Unparseable} :
    /\ remote # <<doc>>
    /\ remote' = <<doc>>
    /\ result' = NoResult
    /\ UNCHANGED <<appVars, posVars, storeVars, inflight, isSyncing,
                   syncStatus, idleTimers, online, dropboxTest, backupFile,
                   reloadTimer, clock, writes>>

\* setTimeout(() => setSyncStatus('idle'), 5000)
IdleTimer ==
  /\ idleTimers > 0
  /\ idleTimers' = idleTimers - 1
  /\ syncStatus' = "idle"
  /\ result' = NoResult
  /\ UNCHANGED <<appVars, posVars, storeVars, remote, inflight, isSyncing,
                 online, dropboxTest, backupFile, reloadTimer, clock, writes>>

\* navigator.onLine changes
SetOnline ==
  /\ online' = ~online
  /\ result' = NoResult
  /\ UNCHANGED <<appVars, posVars, storeVars, remote, inflight, isSyncing,
                 syncStatus, idleTimers, dropboxTest, backupFile,
                 reloadTimer, clock, writes>>

\* ------------------------------------------------------------ specification
\* A first run: empty store, counter 1, default settings, login screen.
Init ==
  /\ orders = <<>>
  /\ settings = DefaultSettings
  /\ cart = <<>>
  /\ cartRef = <<>>
  /\ currentOrderId = NoOrder
  /\ activeTab = "login"
  /\ orderType = "DINE_IN"
  /\ discountType = "PERCENT"
  /\ discountValue = 0
  /\ isCheckingOut = FALSE
  /\ nextOrderNum = 0
  /\ posSettings = DefaultSettings
  /\ storeOrders = <<>>
  /\ storeSeq = 1
  /\ storeSettings = DefaultSettings
  /\ storePrinter = DefaultPrinter
  /\ printerConfig = DefaultPrinter
  /\ remote = NoFile
  /\ inflight = <<>>
  /\ isSyncing = FALSE
  /\ syncStatus = "idle"
  /\ idleTimers = 0
  /\ online = TRUE
  /\ dropboxTest = NoTest
  /\ backupFile = NoFile
  /\ reloadTimer = NoTimer
  /\ clock = 0
  /\ writes = 0
  /\ result = NoResult

Next ==
  \/ Login
  \/ SetActiveTab
  \/ AddToCart
  \/ IncrementQuantity
  \/ DecrementQuantity
  \/ RemoveLine
  \/ ClearCart
  \/ SetOrderType
  \/ StartCheckout
  \/ CancelCheckout
  \/ HandleCheckout
  \/ UpdateOrderStatus
  \/ OnEditOrder
  \/ UpdateRates
  \/ UpdateToken
  \/ TestDropboxStart
  \/ TestDropboxDone
  \/ handleBackup
  \/ HandleRestore
  \/ RestoreTimer
  \/ handleClearData
  \/ PageReload
  \/ PullComplete
  \/ PushComplete
  \/ IdleTimer
  \/ SetOnline
  \/ UpdatePrinter
  \/ RemoteWrite

Spec == Init /\ [][Next]_vars

\* The order lifecycle on a device that never configures a sync credential:
\* building, checkout, kitchen, rates, backup, restore, clear and reload.
NextLifecycle ==
  \/ Login
  \/ SetActiveTab
  \/ AddToCart
  \/ IncrementQuantity
  \/ DecrementQuantity
  \/ RemoveLine
  \/ ClearCart
  \/ SetOrderType
  \/ StartCheckout
  \/ CancelCheckout
  \/ HandleCheckout
  \/ UpdateOrderStatus
  \/ OnEditOrder
  \/ UpdateRates
  \/ handleBackup
  \/ HandleRestore
  \/ RestoreTimer
  \/ handleClearData
  \/ PageReload

SpecLifecycle == Init /\ [][NextLifecycle]_vars

\* Rate configuration and checkout: the settings surface feeding the pricing.
NextRates ==
  \/ Login
  \/ SetActiveTab
  \/ AddToCart
  \/ SetOrderType
  \/ StartCheckout
  \/ HandleCheckout
  \/ UpdateRates

SpecRates == Init /\ [][NextRates]_vars

\* The pricing computation on a bounded set of inputs: a POSView holding any
\* cart of up to MaxLines lines, any discount, order type and rates.
PricingLines ==
  { [id |-> "A", price |-> 500, quantity |-> q, selectedAddons |-> <<>>,
     selectedVariation |-> NoVariation] : q \in 1..MaxQty }
  \cup
  { [id |-> "B", price |-> 200, quantity |-> q, selectedAddons |-> a,
     selectedVariation |-> v] :
       q \in 1..MaxQty,
       a \in {<<>>, <<[name |-> "X", price |-> 50]>>},
       v \in {NoVariation, <<[id |-> "L", price |-> 300]>>} }

PricingCarts ==
  UNION { [1..n -> PricingLines] : n \in 0..MaxLines }

DiscountValues == {0, 10, 2000}

RateConfigs ==
  { [DefaultSettings EXCEPT !.taxRate = t, !.serviceChargeRate = c] :
      t \in TaxRates \cup {0}, c \in ServiceRates \cup {0} }

InitPricing ==
  /\ orders = <<>>
  /\ settings \in RateConfigs
  /\ cart \in PricingCarts
  /\ cartRef = [i \in 1..Len(cart) |-> 0]
  /\ currentOrderId = NoOrder
  /\ activeTab = "pos"
  /\ orderType \in OrderTypes
  /\ discountType \in {"PERCENT", "FIXED"}
  /\ discountValue \in DiscountValues
  /\ isCheckingOut = FALSE
  /\ nextOrderNum = 1
  /\ posSettings = settings
  /\ storeOrders = <<>>
  /\ storeSeq = 1
  /\ storeSettings = settings
  /\ storePrinter = DefaultPrinter
  /\ printerConfig = DefaultPrinter
  /\ remote = NoFile
  /\ inflight = <<>>
  /\ isSyncing = FALSE
  /\ syncStatus = "idle"
  /\ idleTimers = 0
  /\ online = TRUE
  /\ dropboxTest = NoTest
  /\ backupFile = NoFile
  /\ reloadTimer = NoTimer
  /\ clock = 0
  /\ writes = 0
  /\ result = NoResult

NextPricing ==
  \/ SetOrderType
  \/ StartCheckout
  \/ CancelCheckout
  \/ HandleCheckout

SpecPricing == InitPricing /\ [][NextPricing]_vars


\* A device whose credential has been verified and saved, at a page load:
\* the store holds the enabled sync settings and the startup pull is in flight.
SyncedSettings == [DefaultSettings EXCEPT !.syncEnabled = TRUE, !.token = "tok"]

InitSynced ==
  /\ orders = <<>>
  /\ settings = SyncedSettings
  /\ printerConfig = DefaultPrinter
  /\ cart = <<>>
  /\ cartRef = <<>>
  /\ currentOrderId = NoOrder
  /\ activeTab = "login"
  /\ orderType = "DINE_IN"
  /\ discountType = "PERCENT"
  /\ discountValue = 0
  /\ isCheckingOut = FALSE
  /\ nextOrderNum = 0
  /\ posSettings = DefaultSettings
  /\ storeOrders = <<>>
  /\ storeSeq = 1
  /\ storeSettings = SyncedSettings
  /\ storePrinter = DefaultPrinter
  /\ remote = NoFile
  /\ inflight = <<[mode |-> "PULL", data |-> NoFile]>>
  /\ isSyncing = TRUE
  /\ syncStatus = "idle"
  /\ idleTimers = 0
  /\ online = TRUE
  /\ dropboxTest = NoTest
  /\ backupFile = NoFile
  /\ reloadTimer = NoTimer
  /\ clock = 0
  /\ writes = 0
  /\ result = NoResult

\* The sync engine with the mutations that trigger it.
NextSync ==
  \/ Login
  \/ SetActiveTab
  \/ AddToCart
  \/ StartCheckout
  \/ HandleCheckout
  \/ UpdateToken
  \/ UpdatePrinter
  \/ PageReload
  \/ PullComplete
  \/ PushComplete
  \/ IdleTimer
  \/ SetOnline
  \/ RemoteWrite

SpecSync == InitSynced /\ [][NextSync]_vars

\* The sync engine on a page that stays loaded, with every network call
\* returning or throwing and every status timer firing.
NextSyncFair ==
  \/ Login
  \/ SetActiveTab
  \/ AddToCart
  \/ StartCheckout
  \/ HandleCheckout
  \/ UpdateToken
  \/ PullComplete
  \/ PushComplete
  \/ IdleTimer
  \/ SetOnline

SpecSyncFair ==
  /\ InitSynced
  /\ [][NextSyncFair]_vars
  /\ WF_vars(PullComplete)
  /\ WF_vars(PushComplete)
  /\ WF_vars(IdleTimer)

\* The sync configuration surface from a first run: the token input, the
\* connectivity test, and the sync operations the saved settings start.
NextCredential ==
  \/ Login
  \/ SetActiveTab
  \/ UpdateRates
  \/ UpdateToken
  \/ TestDropboxStart
  \/ TestDropboxDone
  \/ PageReload
  \/ PullComplete
  \/ PushComplete
  \/ IdleTimer
  \/ SetOnline

SpecCredential == Init /\ [][NextCredential]_vars

\* ================================================================== claims
\* Every order of the in-memory view and of the store.
AllOrders ==
  {orders[i] : i \in 1..Len(orders)} \cup {storeOrders[i] : i \in 1..Len(storeOrders)}

NumbersOrdered(os) ==
  \A i, j \in 1..Len(os) :
    /\ (i # j => os[i].orderNumber # os[j].orderNumber)
    /\ (os[i].timestamp < os[j].timestamp => os[i].orderNumber < os[j].orderNumber)

\* C1: no two orders of the orders collection share an orderNumber, and an
\* order created later has a strictly greater orderNumber than every order
\* created earlier.
C1_OrderNumbersUniqueIncreasing ==
  NumbersOrdered(orders) /\ NumbersOrdered(storeOrders)

\* A step in which POSView is mounted: its initial state reads peekNext.
MountStep == activeTab # "pos" /\ activeTab' = "pos"

\* A step in which the store is replaced or cleared as a whole.
ReplaceStep == reloadTimer = NoTimer /\ reloadTimer' # NoTimer

\* C2: a peek returns the sequence counter and leaves it unchanged, so peeks
\* with no createOrder in between agree; a createOrder gives the new order the
\* value a peek returned and the peek after it returns that value plus 1.
C2_PeekDoesNotCommit ==
  [][/\ MountStep => (nextOrderNum' = storeSeq /\ storeSeq' = storeSeq)
     /\ result'.op = "createOrder" =>
          /\ orders'[1].orderNumber = storeSeq
          /\ storeSeq' = storeSeq + 1
          /\ nextOrderNum' = storeSeq + 1
     /\ storeSeq' # storeSeq => (result'.op = "createOrder" \/ ReplaceStep)]_vars

\* C2 witness: an order has been created and the surface shows the next number.
C2_Witness ==
  /\ result.op = "createOrder"
  /\ Len(orders) > 0
  /\ orders[1].orderNumber + 1 = nextOrderNum
  /\ nextOrderNum = storeSeq

RECURSIVE SumUnitPrice(_)
\* sum over lines of (unit price + add-on prices) x quantity, the unit price
\* being the line's own price
SumUnitPrice(items) ==
  IF items = <<>> THEN 0
  ELSE (Head(items).price + SumSeq([i \in 1..Len(Head(items).selectedAddons) |->
                                      Head(items).selectedAddons[i].price]))
         * Head(items).quantity
       + SumUnitPrice(Tail(items))

RECURSIVE SumEffectivePrice(_)
\* the same sum, the unit price being the selected variation's price when the
\* line has one
SumEffectivePrice(items) ==
  IF items = <<>> THEN 0
  ELSE LET l == Head(items)
           unit == IF Len(l.selectedVariation) = 1 THEN l.selectedVariation[1].price
                   ELSE l.price
       IN (unit + SumSeq([i \in 1..Len(l.selectedAddons) |-> l.selectedAddons[i].price]))
            * l.quantity
          + SumEffectivePrice(Tail(items))

\* The claimed breakdown for a subtotal of sub rupees.
ClaimedBreakdown(p, sub) ==
  LET ds == IF p.subtotal >= p.discountAmount THEN p.subtotal - p.discountAmount ELSE 0
  IN /\ p.subtotal = sub * Unit
     /\ p.discountAmount = IF discountType = "PERCENT"
                           THEN sub * discountValue * Hundred
                           ELSE discountValue * Unit
     /\ p.discountedSubtotal = ds
     /\ ds % Hundred = 0
     /\ p.tax = (ds \div Hundred) * posSettings.taxRate
     /\ p.serviceCharge = IF orderType = "DINE_IN"
                          THEN (ds \div Hundred) * posSettings.serviceChargeRate
                          ELSE 0
     /\ p.total = ds + p.tax + p.serviceCharge

ScenarioCart ==
  <<[id |-> "A", price |-> 500, quantity |-> 2, selectedAddons |-> <<>>,
     selectedVariation |-> NoVariation]>>

ScenarioInputs ==
  /\ cart = ScenarioCart
  /\ discountType = "PERCENT" /\ discountValue = 10
  /\ posSettings.taxRate = 5 /\ posSettings.serviceChargeRate = 10

Scenarios ==
  /\ (ScenarioInputs /\ orderType = "DINE_IN") =>
       /\ Render.subtotal = 1000 * Unit /\ Render.discountAmount = 100 * Unit
       /\ Render.discountedSubtotal = 900 * Unit /\ Render.tax = 45 * Unit
       /\ Render.serviceCharge = 90 * Unit /\ Render.total = 1035 * Unit
  /\ (ScenarioInputs /\ orderType = "DELIVERY") =>
       /\ Render.serviceCharge = 0 /\ Render.total = 945 * Unit

\* C3 as stated: the pricing computation returns subtotal = sum over lines of
\* (unit price + sum of add-on prices) x quantity, the discount, tax, service
\* charge and total of the claimed formulas, and the totals of Scenarios A, B.
C3_PricingOnUnitPrice ==
  ClaimedBreakdown(Render, SumUnitPrice(cart)) /\ Scenarios

\* C3 as amended: the same, the unit price of a line being the price of its
\* selected variation when it has one and the line's own price otherwise.
C3_PricingOnEffectivePrice ==
  ClaimedBreakdown(Render, SumEffectivePrice(cart)) /\ Scenarios

\* C3 witness: Scenario A has been checked out.
C3_Witness ==
  \E i \in 1..Len(orders) :
    /\ orders[i].items = ScenarioCart /\ orders[i].type = "DINE_IN"
    /\ orders[i].subtotal = 1000 * Unit /\ orders[i].discountAmount = 100 * Unit
    /\ orders[i].taxAmount = 45 * Unit /\ orders[i].serviceChargeAmount = 90 * Unit
    /\ orders[i].total = 1035 * Unit

\* The stored monetary fields of o are the pricing of its stored items and
\* stored order type, for some discount and rate configuration.
IsPricingOfStored(o) ==
  \E r \in RateConfigs : \E dT \in {"PERCENT", "FIXED"} : \E dV \in DiscountValues :
    LET p == Pricing(o.items, dT, dV, o.type, r)
    IN /\ p.subtotal = o.subtotal /\ p.discountAmount = o.discountAmount
       /\ p.tax = o.taxAmount /\ p.serviceCharge = o.serviceChargeAmount
       /\ p.total = o.total

\* C4: every order of the orders collection satisfies total = max(0, subtotal
\* - discountAmount) + taxAmount + serviceChargeAmount on its stored fields,
\* and those fields are the pricing of its stored items and stored order type.
C4_StoredPricingConsistent ==
  \A o \in AllOrders :
    /\ o.total = Max(0, o.subtotal - o.discountAmount) + o.taxAmount
                   + o.serviceChargeAmount
    /\ IsPricingOfStored(o)

\* C5: every order whose stored type is DELIVERY or TAKEAWAY has a stored
\* service-charge amount of 0.
C5_NoServiceChargeOffPremises ==
  \A o \in AllOrders :
    o.type \in {"DELIVERY", "TAKEAWAY"} => o.serviceChargeAmount = 0

\* C6: the total the pricing computes, and the total stored on every order,
\* is >= 0 for every rate configuration the settings surface can supply.
C6_TotalNonNegative ==
  /\ Render.total >= 0
  /\ \A o \in AllOrders : o.total >= 0

C8_CreatePrepends ==
  [][result'.op = "createOrder" =>
       /\ storeSeq' = storeSeq + 1
       /\ orders'[1].status = "PENDING"
       /\ orders'[1].orderNumber = storeSeq
       /\ orders'[1].id = result'.id
       /\ Tail(orders') = orders
       /\ storeOrders'[1] = orders'[1]
       /\ Tail(storeOrders') = storeOrders]_vars

\* A step of the payment overlay that calls createOrder or reviseOrder.
CheckoutStep ==
  isCheckingOut /\ result'.op \in {"createOrder", "reviseOrder"}

C10_ReviseReplaces ==
  [][(result'.op = "reviseOrder" /\ result'.ok) =>
       LET i == FindOrder(orders, currentOrderId)
           p == Render
           d == Details(orderType, p)
       IN /\ Len(orders') = Len(orders)
          /\ orders'[i].items = cart
          /\ orders'[i].type = orderType
          /\ orders'[i].paymentMethod \in PaymentMethods
          /\ orders'[i].tableNumber = d.tableNumber
          /\ orders'[i].deliveryAddress = d.deliveryAddress
          /\ orders'[i].subtotal = p.subtotal
          /\ orders'[i].discountAmount = p.discountAmount
          /\ orders'[i].taxAmount = p.tax
          /\ orders'[i].serviceChargeAmount = p.serviceCharge
          /\ orders'[i].total = p.total
          /\ orders'[i].status = "PENDING"
          /\ orders'[i].id = orders[i].id
          /\ orders'[i].orderNumber = orders[i].orderNumber
          /\ orders'[i].timestamp = orders[i].timestamp
          /\ \A j \in 1..Len(orders) : j # i => orders'[j] = orders[j]
          /\ storeOrders' = orders'
          /\ storeSeq' = storeSeq]_vars

\* C11: transitionStatus on an id that is not in the stored orders collection
\* fails and makes no store mutation; on an existing id it succeeds for any
\* target status and changes only that order's status.
C11_TransitionStatus ==
  [][result'.op = "transitionStatus" =>
       IF result'.id \notin OrderIds(storeOrders)
       THEN ~result'.ok /\ UNCHANGED storeVars
       ELSE /\ result'.ok
            /\ storeSeq' = storeSeq /\ storeSettings' = storeSettings
            /\ Len(storeOrders') = Len(storeOrders)
            /\ \A i \in 1..Len(storeOrders) :
                 storeOrders'[i] =
                   IF storeOrders[i].id = result'.id
                   THEN [storeOrders[i] EXCEPT !.status = storeOrders'[i].status]
                   ELSE storeOrders[i]]_vars

\* C12: an order whose status is terminal (CANCELLED) is never returned to a
\* live status by reviseOrder; reviseOrder re-activates only live or held orders.
C12_TerminalNotReopened ==
  [][(result'.op = "reviseOrder" /\ result'.ok) =>
       LET i == FindOrder(orders, currentOrderId)
       IN orders[i].status = "CANCELLED" => orders'[i].status = "CANCELLED"]_vars

\* A step of a handler that calls performSync('PUSH') after its mutation.
PushCall ==
  /\ \/ result'.op \in {"createOrder", "transitionStatus"}
     \/ result'.op = "reviseOrder" /\ result'.ok
     \/ result'.op = "updateSettings"
  /\ IF result'.op = "updateSettings" THEN settings'.syncEnabled
     ELSE settings.syncEnabled

\* The credential and connectivity a performSync call of this step sees.
CanSync(S) == Trim(S.token) # "" /\ online

C14_Pull404 ==
  [][result'.op = "pull404" =>
       /\ UNCHANGED <<storeVars, orders, settings, printerConfig>>
       /\ syncStatus' = "idle"
       /\ ~isSyncing']_vars

\* C14 witness: a pull was answered with 404 on a device that holds an order.
C14_Witness ==
  /\ result.op = "pull404"
  /\ storeOrders # <<>>
  /\ syncStatus = "idle"

C17_RestoreFailsClosed ==
  [][/\ (result'.op \in {"pull200", "pull200same"} /\ ~IsSnapshot(remote)) =>
          /\ ~result'.ok
          /\ syncStatus' = "error"
          /\ UNCHANGED storeVars
     /\ (result'.op = "restore" /\ ~result'.ok) => UNCHANGED storeVars]_vars

\* A step of a handler that mutates persisted state.
LocalMutation ==
  \/ result'.op \in {"createOrder", "transitionStatus", "updateSettings",
                    "updatePrinter"}
  \/ result'.op = "reviseOrder" /\ result'.ok

\* A push is started in this step.
PushStarted ==
  /\ Len(inflight') = Len(inflight) + 1
  /\ inflight'[Len(inflight')].mode = "PUSH"

\* C18: with sync enabled, a credential present and the device online, every
\* mutation of persisted state (orders, settings, printer configuration) is
\* followed by a push.
C18_PushAfterEveryMutation ==
  [][(/\ LocalMutation
      /\ settings.syncEnabled /\ CanSync(settings)
      /\ settings'.syncEnabled /\ Trim(settings'.token) # "") =>
       PushStarted]_vars

\* C19: the snapshot a push uploads is read after the store write of the
\* mutation that triggers it, so it is the store as that mutation left it, and
\* a successful push puts exactly that snapshot on the remote.
C19_WriteBeforePush ==
  [][/\ PushStarted =>
          inflight'[Len(inflight')].data =
            getAllData(storeOrders', storeSeq', storeSettings', storePrinter')
     /\ (result'.op = "push" /\ result'.ok) =>
          \E i \in 1..Len(inflight) :
            inflight[i].mode = "PUSH" /\ remote' = <<inflight[i].data>>]_vars

\* C19 witness: the push of a createOrder is in flight with the new order in
\* its snapshot.
C19_Witness ==
  /\ result.op = "createOrder"
  /\ \E i \in 1..Len(inflight) :
       /\ inflight[i].mode = "PUSH"
       /\ Len(inflight[i].data.orders) > 0
       /\ inflight[i].data.orders[1].id = result.id

NumPulls(q) == Cardinality({i \in 1..Len(q) : q[i].mode = "PULL"})

\* C20: a pull is started only by application startup, at most once per start,
\* and only when sync is enabled, a credential is stored and the device is
\* online; the store is otherwise written by local operations only.
C20_PullOnlyAtStartup ==
  /\ [](NumPulls(inflight) <= 1)
  /\ [][/\ result'.op = "startup" =>
             (NumPulls(inflight') = 1 <=>
                (storeSettings.syncEnabled /\ CanSync(storeSettings)))
        /\ result'.op # "startup" => NumPulls(inflight') <= NumPulls(inflight)
        /\ (storeVars' # storeVars /\ result'.op \notin {"pull200", "pull200same"})
             => (LocalMutation \/ result'.op = "restore" \/ ReplaceStep)]_vars

\* C20 witness: a page load has started the pull on a device that holds an order.
C20_Witness ==
  /\ result.op = "startup"
  /\ NumPulls(inflight) = 1
  /\ storeOrders # <<>>

\* C23: every line of the cart, and every line of every order of the
\* in-memory view and of the store, has a quantity of at least 1.
C23_QuantityAtLeastOne ==
  /\ \A i \in 1..Len(cart) : cart[i].quantity >= 1
  /\ \A o \in AllOrders : \A i \in 1..Len(o.items) : o.items[i].quantity >= 1

\* An order loaded for editing whose only line was replaced by a quantity
\* button and stands at quantity 1, as the stored order's line does.
C23_Witness ==
  /\ currentOrderId # NoOrder
  /\ Len(cart) = 1 /\ cartRef[1] = 0 /\ cart[1].quantity = 1
  /\ \E o \in AllOrders : o.id = currentOrderId /\ o.items = cart

\* C30: a checkout with no order being edited creates an order and consumes
\* one order number; with an order being edited it revises and consumes none;
\* a successful checkout leaves the cart empty and no order being edited; a
\* failed revision leaves the cart and the editing state as they were.
C30_CheckoutDispatch ==
  [][CheckoutStep =>
       /\ currentOrderId = NoOrder =>
            result'.op = "createOrder" /\ storeSeq' = storeSeq + 1
       /\ currentOrderId # NoOrder =>
            result'.op = "reviseOrder" /\ storeSeq' = storeSeq
       /\ result'.ok => cart' = <<>> /\ currentOrderId' = NoOrder
       /\ ~result'.ok => UNCHANGED <<cart, currentOrderId>>]_vars

\* A revision has just been checked out: the edit session is closed.
C30_Witness ==
  /\ result.op = "reviseOrder" /\ result.ok
  /\ cart = <<>> /\ currentOrderId = NoOrder
  /\ storeSeq = 2 /\ Len(storeOrders) = 1

\* A cart change made in POSView while an order is being edited.
EditSessionCartStep ==
  /\ currentOrderId # NoOrder
  /\ activeTab = "pos" /\ activeTab' = "pos"
  /\ result'.op = "none"
  /\ cart' # cart

\* The items of the order with this id in a collection, <<>> if it is absent.
ItemsOf(os, id) ==
  IF FindOrder(os, id) = 0 THEN <<>> ELSE os[FindOrder(os, id)].items

\* C24: changing the cart while an order is being edited changes neither the
\* in-memory nor the persisted orders collection, and a status write made
\* during the edit session stores every order with the items it had in the
\* store.
C24_EditLeavesOrderUntouched ==
  [][/\ EditSessionCartStep => orders' = orders /\ storeOrders' = storeOrders
     /\ (currentOrderId # NoOrder /\ result'.op = "transitionStatus") =>
          \A id \in OrderIds(storeOrders) :
            ItemsOf(storeOrders', id) = ItemsOf(storeOrders, id)]_vars

\* The handlers that extend or rewrite the orders collection.
OrderMutations == {"createOrder", "reviseOrder", "transitionStatus"}

\* C26: a mutation handler starts from an in-memory orders view equal to the
\* persisted collection, and after every completed mutation, pull or restore
\* the in-memory view equals the persisted collection.
C26_ViewEqualsStore ==
  [][/\ (result'.op \in OrderMutations /\ result'.ok) => orders = storeOrders
     /\ (result'.op \in OrderMutations \cup {"pull200", "restore"} /\ result'.ok)
          => orders' = storeOrders']_vars

\* C27: the syncing flag is true in exactly the states where a push or a
\* pull is in flight.
C27_SyncingFlag == isSyncing <=> Len(inflight) > 0

\* Every operation in flight finishes and the syncing flag returns to false.
SyncFinishes == (Len(inflight) > 0) ~> (Len(inflight) = 0 /\ ~isSyncing)

\* A status other than idle returns to idle.
StatusReturnsToIdle == (syncStatus # "idle") ~> (syncStatus = "idle")

\* A status timer fires while a later one is pending: it is the timer of an
\* earlier operation than the one that set the status now shown.
EarlierTimerFires == idleTimers' = idleTimers - 1 /\ idleTimers >= 2

\* C28: every started push or pull finishes, the syncing flag returns to
\* false and the status returns to idle; and the outcome shown for an
\* operation is not reset by the timer of an earlier operation.
C28_SyncFinishesAndStatusKept ==
  /\ SyncFinishes
  /\ StatusReturnsToIdle
  /\ [][EarlierTimerFires => syncStatus \notin {"success", "error"}]_vars

\* handleTestDropbox returns from its await with res.ok, or without it.
TestPassedStep ==
  dropboxTest # NoTest /\ dropboxTest' = NoTest /\ result'.op = "updateSettings"

TestFailedStep ==
  dropboxTest # NoTest /\ dropboxTest' = NoTest /\ result'.op = "none"

\* C29: the enabled flag becomes true only by a passed connectivity test, on
\* the non-empty trimmed token that was tested; a failed test leaves the
\* settings unchanged; and while the flag is true the stored token changes
\* only to a token that has just passed the test.
C29_EnabledOnlyForValidatedToken ==
  [][/\ (~storeSettings.syncEnabled /\ storeSettings'.syncEnabled) =>
          /\ TestPassedStep
          /\ storeSettings'.token = dropboxTest[1].token
          /\ storeSettings'.token # ""
     /\ TestFailedStep => UNCHANGED <<settings, storeSettings>>
     /\ (storeSettings'.syncEnabled /\ storeSettings'.token # storeSettings.token)
          => TestPassedStep /\ storeSettings'.token = dropboxTest[1].token]_vars

\* A push or a pull returns from its network call with a failure: a non-OK
\* response other than 404, a network error, or a body that does not parse.
SyncFailureStep ==
  /\ result'.op \in {"push", "pullFailed", "pull200"}
  /\ ~result'.ok

\* C22: a failed push or pull sets the status to error and changes neither
\* the local store nor the in-memory views, so the mutation that started it
\* stays as it was written.
C22_SyncFailureIsContained ==
  [][SyncFailureStep =>
       /\ syncStatus' = "error"
       /\ UNCHANGED storeVars
       /\ UNCHANGED <<orders, settings, printerConfig>>]_vars

\* The push of a checkout has failed: the status is error and the order the
\* checkout created is in the store and in the view.
C22_Witness ==
  /\ result.op = "push" /\ ~result.ok
  /\ syncStatus = "error"
  /\ Len(storeOrders) = 1 /\ orders = storeOrders

\* The snapshot a push started now would upload.
CurrentSnapshot == getAllData(storeOrders, storeSeq, storeSettings, storePrinter)

\* The last of two overlapping pushes returns OK right after the other did,
\* and one of the two carried the snapshot of the store as it is now.
LastOfTwoPushesCompletes ==
  /\ result.op = "push" /\ result.ok
  /\ result'.op = "push" /\ result'.ok
  /\ Len(inflight) = 1 /\ inflight' = <<>>
  /\ (remote = <<CurrentSnapshot>> \/ inflight[1].data = CurrentSnapshot)

\* C21: a push that returns OK leaves its own snapshot as the remote file,
\* and when the last of the overlapping pushes has returned OK, with no
\* local mutation since the latest push began, the remote file is the
\* snapshot of the local store.
C21_OverlappingPushesConverge ==
  [][/\ (result'.op = "push" /\ result'.ok) =>
          \E i \in 1..Len(inflight) :
            inflight[i].mode = "PUSH" /\ remote' = <<inflight[i].data>>
     /\ LastOfTwoPushesCompletes => remote' = <<CurrentSnapshot>>]_vars

\* C25: except when the user clears or restores the database, no step removes
\* an order from the persisted or the in-memory orders collection, and no
\* step moves the order-number counter back.
C25_CreatedOrderSurvives ==
  [][~ReplaceStep =>
       /\ OrderIds(storeOrders) \subseteq OrderIds(storeOrders')
       /\ OrderIds(orders) \subseteq OrderIds(orders')
       /\ storeSeq' >= storeSeq]_vars

====
